---- MODULE Spec2Model ----
(***************************************************************************)
(* GymApp (src/src/App.tsx): the plan / exercise store of the App          *)
(* component, its effects (persistence, active-plan repair) and the rest   *)
(* timer.                                                                  *)
(*                                                                         *)
(* Encoding.  Weights held by an exercise are integers in tenths of a kg   *)
(* (20.0 kg = 200); numbers before toFixed(1) are integers in hundredths.  *)
(* Strings are tuples of one-character strings.  A value that may be null  *)
(* or missing is <<>> when it is, and <<v>> when it is v.  Ids made by     *)
(* createId are fresh: they come from the counter nextId.                  *)
(***************************************************************************)
EXTENDS Integers, Sequences, FiniteSets, TLC

VARIABLES plans, history, activePlanId, restSeconds, restRunning,
          storedPlans, storedHistory, pending, nextId, steps

vars == <<plans, history, activePlanId, restSeconds, restRunning,
          storedPlans, storedHistory, pending, nextId, steps>>

storeVars == <<plans, history, activePlanId>>
timerVars == <<restSeconds, restRunning>>
slotVars == <<storedPlans, storedHistory>>

\* ---------------------------------------------------------------- bounds
\* The number of handler calls (user events) of a run that starts from what
\* an earlier session left in storage.
MaxSteps == 2
\* The number of handler calls of a run that starts from an empty storage.
MaxEmptySteps == 4
\* The number of presses of the rest timer's buttons in a run of the timer.
MaxTimerSteps == 3
\* The number of handler calls of a run in which the rest timer and the
\* store handlers are both at work.
MaxBesideSteps == 2

\* The number of set chips clicked in a run that does nothing else.
MaxChipSteps == 5

\* The number of handler calls of a run that starts from any of the storage
\* contents, well formed or not.
MaxLoadSteps == 1

\* ---------------------------------------------------- program constants
MaxWeight == 3000
MinTargetSets == 1
MaxTargetSets == 12
DefaultTargetSets == 3
HistoryCap == 40
\* the cap of the v3 variant
HistoryCapV3 == 60
InitialRestSeconds == 90
\* the seconds the button +30s adds
RestIncrement == 30

\* the empty string as an id: useState<string>('') of activePlanId
EmptyId == 0

\* ------------------------------------------------------- general helpers
Max(a, b) == IF a >= b THEN a ELSE b
Min(a, b) == IF a <= b THEN a ELSE b

Null == <<>>
Some(v) == <<v>>
IsNull(x) == x = <<>>
\* x ?? d
Coalesce(x, d) == IF x = <<>> THEN d ELSE x[1]

SeqMap(s, F(_)) == [i \in 1..Len(s) |-> F(s[i])]

\* a removal that also takes what stands behind the item
RemoveByIdAndRest(s, id) ==
  IF \E i \in 1..Len(s) : s[i].id = id
  THEN SubSeq(s, 1, (CHOOSE i \in 1..Len(s) : s[i].id = id /\ \A j \in 1..(i - 1) : s[j].id # id) - 1)
  ELSE s

\* array.filter((x) => x.id !== id)
RECURSIVE RemoveById(_, _)
RemoveById(s, id) ==
  IF s = <<>> THEN <<>>
  ELSE IF Head(s).id # id THEN <<Head(s)>> \o RemoveById(Tail(s), id)
  ELSE RemoveById(Tail(s), id)

\* a slice that cuts nothing
SliceAll(s, n) == s

\* array.slice(0, n)
Slice0(s, n) == SubSeq(s, 1, Min(Len(s), n))

\* array.findIndex, 1-based; 0 when absent (the code's -1)
FindIndex(s, Test(_)) ==
  IF \E i \in 1..Len(s) : Test(s[i])
  THEN CHOOSE i \in 1..Len(s) : Test(s[i]) /\ \A j \in 1..(i - 1) : ~Test(s[j])
  ELSE 0

\* ------------------------------------------------------- string helpers
IsSpace(c) == c = " "

RECURSIVE TrimStart(_)
TrimStart(s) ==
  IF s # <<>> /\ IsSpace(Head(s)) THEN TrimStart(Tail(s)) ELSE s

RECURSIVE TrimEnd(_)
TrimEnd(s) ==
  IF s # <<>> /\ IsSpace(s[Len(s)]) THEN TrimEnd(SubSeq(s, 1, Len(s) - 1)) ELSE s

\* a trim that takes nothing off
TrimNothing(s) == s

\* String.prototype.trim
Trim(s) == TrimEnd(TrimStart(s))

DigitChars == <<"0", "1", "2", "3", "4", "5", "6", "7", "8", "9">>
IsDigit(c) == \E i \in 1..10 : DigitChars[i] = c
DigitVal(c) == (CHOOSE i \in 1..10 : DigitChars[i] = c) - 1

\* the longest prefix of digits of s
RECURSIVE DigitPrefix(_)
DigitPrefix(s) ==
  IF s # <<>> /\ IsDigit(Head(s)) THEN <<Head(s)>> \o DigitPrefix(Tail(s)) ELSE <<>>

RECURSIVE DigitsValue(_, _)
DigitsValue(ds, acc) ==
  IF ds = <<>> THEN acc ELSE DigitsValue(Tail(ds), 10 * acc + DigitVal(Head(ds)))

\* The number Infinity, as parseFloat("Infinity") gives it: a number is
\* finite when it lies strictly between -Infinity and Infinity.
Infinity == 100000000
IsFinite(n) == -Infinity < n /\ n < Infinity

InfinityLiteral == <<"I", "n", "f", "i", "n", "i", "t", "y">>

\* Number.parseFloat on a decimal literal: optional leading white space, an
\* optional sign, then the word Infinity or digits and an optional fraction;
\* text after the number is ignored.  The result is <<>> for NaN, else <<h>>
\* with h in hundredths (the inputs of this model carry at most two fraction
\* digits).
ParseFloat(str) ==
  LET s0 == TrimStart(str)
      neg == s0 # <<>> /\ Head(s0) = "-"
      s1 == IF s0 # <<>> /\ Head(s0) \in {"-", "+"} THEN Tail(s0) ELSE s0
      ip == DigitPrefix(s1)
      r1 == SubSeq(s1, Len(ip) + 1, Len(s1))
      fp == IF r1 # <<>> /\ Head(r1) = "." THEN DigitPrefix(Tail(r1)) ELSE <<>>
      f2 == SubSeq(fp \o <<"0", "0">>, 1, 2)
      mag == 100 * DigitsValue(ip, 0) + DigitsValue(f2, 0)
  IN IF Len(s1) >= Len(InfinityLiteral)
        /\ SubSeq(s1, 1, Len(InfinityLiteral)) = InfinityLiteral
     THEN Some(IF neg THEN -Infinity ELSE Infinity)
     ELSE IF ip = <<>> /\ fp = <<>> THEN Null
     ELSE Some(IF neg THEN -mag ELSE mag)

\* Number(x.toFixed(1)): hundredths to tenths, half away from zero;
\* Infinity.toFixed(1) is "Infinity"
ToFixed1(h) ==
  IF ~IsFinite(h) THEN h
  ELSE IF h < 0 THEN -((-h + 5) \div 10) ELSE (h + 5) \div 10

\* ------------------------------------------------------------ clamping
\* a clampWeight that forgets the ceiling
clampWeightNoCeiling(value) == Max(0, value)

clampWeight(value) == Max(0, Min(MaxWeight, value))

clampInt(value, min, max) == Max(min, Min(max, value))

\* ------------------------------------------------------------ exercises
\* the Exercise that addExercise builds
NewExercise(id, name, normalizedWeight) ==
  [id |-> id, name |-> name, currentWeight |-> normalizedWeight,
   previousWeight |-> Null, bestWeight |-> normalizedWeight,
   completed |-> FALSE, notes |-> <<>>, targetSets |-> DefaultTargetSets,
   completedSets |-> 0]

\* weight writes gone wrong: previousWeight not shifted; bestWeight not raised;
\* no early return on an equal weight
WeightWriteNoShift(exercise, nextWeight) ==
  IF exercise.currentWeight = nextWeight THEN exercise
  ELSE [exercise EXCEPT !.currentWeight = nextWeight,
                        !.bestWeight = Max(exercise.bestWeight, nextWeight),
                        !.completed = FALSE]

WeightWriteBestStale(exercise, nextWeight) ==
  IF exercise.currentWeight = nextWeight THEN exercise
  ELSE [exercise EXCEPT !.previousWeight = Some(exercise.currentWeight),
                        !.currentWeight = nextWeight,
                        !.completed = FALSE]

WeightWriteAlways(exercise, nextWeight) ==
  [exercise EXCEPT !.previousWeight = Some(exercise.currentWeight),
                   !.currentWeight = nextWeight,
                   !.bestWeight = Max(exercise.bestWeight, nextWeight),
                   !.completed = FALSE]

\* updateExerciseWeight, the callback on the addressed exercise
WeightWrite(exercise, nextWeight) ==
  IF exercise.currentWeight = nextWeight THEN exercise
  ELSE [exercise EXCEPT !.previousWeight = Some(exercise.currentWeight),
                        !.currentWeight = nextWeight,
                        !.bestWeight = Max(exercise.bestWeight, nextWeight),
                        !.completed = FALSE]

\* a delta write that leaves previousWeight as it was
DeltaWriteNoShift(exercise, delta) ==
  LET nextWeight == clampWeight(ToFixed1(10 * exercise.currentWeight + delta))
  IN IF nextWeight = exercise.currentWeight THEN exercise
     ELSE [exercise EXCEPT !.currentWeight = nextWeight,
                           !.bestWeight = Max(exercise.bestWeight, nextWeight),
                           !.completed = FALSE]

\* a delta write whose bestWeight follows the weight down
DeltaWriteBestFollows(exercise, delta) ==
  LET nextWeight == clampWeight(ToFixed1(10 * exercise.currentWeight + delta))
  IN IF nextWeight = exercise.currentWeight THEN exercise
     ELSE [exercise EXCEPT !.previousWeight = Some(exercise.currentWeight),
                           !.currentWeight = nextWeight,
                           !.bestWeight = nextWeight,
                           !.completed = FALSE]

\* changeExerciseByDelta, the callback on the addressed exercise; delta is in
\* hundredths
DeltaWrite(exercise, delta) ==
  LET nextWeight == clampWeight(ToFixed1(10 * exercise.currentWeight + delta))
  IN IF nextWeight = exercise.currentWeight THEN exercise
     ELSE [exercise EXCEPT !.previousWeight = Some(exercise.currentWeight),
                           !.currentWeight = nextWeight,
                           !.bestWeight = Max(exercise.bestWeight, nextWeight),
                           !.completed = FALSE]

\* a completed write whose "open" flips the flag and keeps the set count
CompletedWriteKeepsCount(exercise, completed) ==
  [exercise EXCEPT !.completed = completed,
                   !.completedSets = IF completed THEN exercise.targetSets
                                     ELSE exercise.completedSets]

\* setExerciseCompleted, the callback on the addressed exercise
CompletedWrite(exercise, completed) ==
  [exercise EXCEPT !.completed = completed,
                   !.completedSets = IF completed THEN exercise.targetSets ELSE 0]

\* setExerciseSets, the callback on the addressed exercise
SetsWrite(exercise, nextCompletedSets) ==
  LET clamped == clampInt(nextCompletedSets, 0, exercise.targetSets)
  IN [exercise EXCEPT !.completedSets = clamped,
                      !.completed = clamped >= exercise.targetSets]

\* a meta write that takes the targetSets of the patch as it comes
MetaWriteNoClamp(exercise, patch) ==
  LET targetSets ==
        IF ~IsNull(patch.targetSets) /\ patch.targetSets[1] # 0
        THEN patch.targetSets[1]
        ELSE exercise.targetSets
  IN [exercise EXCEPT
        !.name = Coalesce(patch.name, exercise.name),
        !.notes = Coalesce(patch.notes, exercise.notes),
        !.targetSets = targetSets,
        !.completedSets = clampInt(exercise.completedSets, 0, targetSets),
        !.completed = clampInt(exercise.completedSets, 0, targetSets) >= targetSets]

\* a meta write that keeps completedSets when targetSets shrinks
MetaWriteNoReclamp(exercise, patch) ==
  LET targetSets ==
        IF ~IsNull(patch.targetSets) /\ patch.targetSets[1] # 0
        THEN clampInt(patch.targetSets[1], MinTargetSets, MaxTargetSets)
        ELSE exercise.targetSets
  IN [exercise EXCEPT
        !.name = Coalesce(patch.name, exercise.name),
        !.notes = Coalesce(patch.notes, exercise.notes),
        !.targetSets = targetSets,
        !.completed = exercise.completedSets >= targetSets]

\* updateExerciseMeta, the callback on the addressed exercise.  A patch is
\* [name, notes, targetSets], each <<>> when the key is not in the patch.
\* patch.targetSets is falsy when missing or 0.
MetaWrite(exercise, patch) ==
  LET targetSets ==
        IF ~IsNull(patch.targetSets) /\ patch.targetSets[1] # 0
        THEN clampInt(patch.targetSets[1], MinTargetSets, MaxTargetSets)
        ELSE exercise.targetSets
  IN [exercise EXCEPT
        !.name = Coalesce(patch.name, exercise.name),
        !.notes = Coalesce(patch.notes, exercise.notes),
        !.targetSets = targetSets,
        !.completedSets = clampInt(exercise.completedSets, 0, targetSets),
        !.completed = clampInt(exercise.completedSets, 0, targetSets) >= targetSets]

\* an isPr that does not look at bestWeight
IsPrAnyRise(exercise) ==
  /\ ~IsNull(exercise.previousWeight)
  /\ exercise.currentWeight > exercise.previousWeight[1]

\* finishTraining: the isPr flag of a snapshot
IsPr(exercise) ==
  /\ ~IsNull(exercise.previousWeight)
  /\ exercise.currentWeight >= exercise.bestWeight
  /\ exercise.currentWeight > exercise.previousWeight[1]

\* finishTraining: the HistoryExercise taken of an exercise
Snapshot(exercise) ==
  [name |-> exercise.name, weight |-> exercise.currentWeight,
   completedSets |-> exercise.completedSets, targetSets |-> exercise.targetSets,
   isPr |-> IsPr(exercise)]

\* a reset that also forgets the weight before the last change
FinishResetForgetsPrevious(exercise) ==
  [exercise EXCEPT !.completed = FALSE, !.completedSets = 0,
                   !.previousWeight = Null]

\* a reset that clears the flag and keeps the count
FinishResetFlagOnly(exercise) ==
  [exercise EXCEPT !.completed = FALSE]

\* finishTraining: the exercise after the workout
FinishReset(exercise) ==
  [exercise EXCEPT !.completed = FALSE, !.completedSets = 0]

\* ---------------------------------------------------------------- plans
PlanIds(ps) == {ps[i].id : i \in 1..Len(ps)}
ExerciseIds(ps) == UNION {{ps[i].exercises[j].id : j \in 1..Len(ps[i].exercises)} : i \in 1..Len(ps)}

\* previous.map((plan) => plan.id !== activePlan.id ? plan : {...plan, exercises: F(plan.exercises)})
MapPlan(ps, planId, F(_)) ==
  [i \in 1..Len(ps) |->
     IF ps[i].id # planId THEN ps[i] ELSE [ps[i] EXCEPT !.exercises = F(ps[i].exercises)]]

\* plan.exercises.map((exercise) => exercise.id !== exerciseId ? exercise : G(exercise))
MapExercise(es, exerciseId, G(_)) ==
  [j \in 1..Len(es) |-> IF es[j].id # exerciseId THEN es[j] ELSE G(es[j])]

\* plans.find((plan) => plan.id === activePlanId) ?? null, as <<>> or <<plan>>
FindPlan(ps, planId) ==
  LET i == FindIndex(ps, LAMBDA p : p.id = planId)
  IN IF i = 0 THEN Null ELSE Some(ps[i])

activePlan == FindPlan(plans, activePlanId)

\* exercises.reduce((sum, exercise) => sum + exercise.currentWeight, 0), in
\* tenths
RECURSIVE TotalWeight(_)
TotalWeight(es) ==
  IF es = <<>> THEN 0 ELSE Head(es).currentWeight + TotalWeight(Tail(es))

\* a quotient of two numbers, kept as the pair; it is zero when num is
Quotient(num, den) == [num |-> num, den |-> den]

\* planStats of a plan that is <<>> (null) or <<plan>>
StatsOf(plan) ==
  IF IsNull(plan)
  THEN [exerciseCount |-> 0, avgWeight |-> Quotient(0, 1), progressCount |-> 0,
        completedCount |-> 0]
  ELSE LET es == plan[1].exercises
           exerciseCount == Len(es)
       IN [exerciseCount |-> exerciseCount,
           avgWeight |-> IF exerciseCount > 0 THEN Quotient(TotalWeight(es), exerciseCount)
                         ELSE Quotient(0, 1),
           progressCount |->
             Cardinality({j \in 1..Len(es) :
                            /\ ~IsNull(es[j].previousWeight)
                            /\ es[j].currentWeight > es[j].previousWeight[1]}),
           completedCount |-> Cardinality({j \in 1..Len(es) : es[j].completed})]

\* useMemo(..., [activePlan]): computed anew whenever activePlan is another
\* object, which it is after every setPlans that touches the active plan
planStats == StatsOf(activePlan)

\* a splice pair that leaves the item where it was and inserts it once more
SpliceCopy(es, from, to) ==
  SubSeq(es, 1, to - 1) \o <<es[from]>> \o SubSeq(es, to, Len(es))

\* the splice pair of moveExercise and moveExerciseByOffset: take the item at
\* from out, insert it at to (1-based)
SpliceMove(es, from, to) ==
  LET moved == es[from]
      rest == SubSeq(es, 1, from - 1) \o SubSeq(es, from + 1, Len(es))
  IN SubSeq(rest, 1, to - 1) \o <<moved>> \o SubSeq(rest, to, Len(rest))

\* a move that lets the dragged and the target exercise change places
MoveWriteSwap(es, dragId, targetId) ==
  LET fromIndex == FindIndex(es, LAMBDA e : e.id = dragId)
      toIndex == FindIndex(es, LAMBDA e : e.id = targetId)
  IN IF fromIndex = 0 \/ toIndex = 0 \/ fromIndex = toIndex THEN es
     ELSE [es EXCEPT ![fromIndex] = es[toIndex], ![toIndex] = es[fromIndex]]

\* moveExercise, the callback on the active plan's exercises
MoveWrite(es, dragId, targetId) ==
  LET fromIndex == FindIndex(es, LAMBDA e : e.id = dragId)
      toIndex == FindIndex(es, LAMBDA e : e.id = targetId)
  IN IF fromIndex = 0 \/ toIndex = 0 \/ fromIndex = toIndex THEN es
     ELSE SpliceMove(es, fromIndex, toIndex)

\* moveExerciseByOffset of the v3 variant, the callback on the active plan's
\* exercises; offset is -1 or 1.  index and target are 1-based here, so the
\* code's index < 0 is index = 0 and its target < 0 || target >= length is
\* target < 1 \/ target > Len(es).
OffsetWrite(es, exerciseId, offset) ==
  LET index == FindIndex(es, LAMBDA e : e.id = exerciseId)
      target == index + offset
  IN IF index = 0 \/ target < 1 \/ target > Len(es) THEN es
     ELSE SpliceMove(es, index, target)

\* the TrainingHistoryEntry of finishTraining
HistoryEntry(id, now, plan) ==
  [id |-> id, dateIso |-> now, planId |-> plan.id, planName |-> plan.name,
   exercises |-> SeqMap(plan.exercises, Snapshot)]

\* finishWorkout of the v3 variant: setHistory((prev) => [entry, ...prev].slice(0, 60))
finishWorkoutHistory(entry, prev) == Slice0(<<entry>> \o prev, HistoryCapV3)

\* -------------------------------------------------------------- storage
\* A slot of localStorage is [kind, value]: kind "absent" (no such key),
\* "garbage" (text JSON.parse throws on), "object" (JSON that is no array) or
\* "array"; value is the parsed array, <<>> otherwise.
AbsentSlot == [kind |-> "absent", value |-> <<>>]
GarbageSlot == [kind |-> "garbage", value |-> <<>>]
ObjectSlot == [kind |-> "object", value |-> <<>>]

\* JSON of a number: JSON.stringify writes Infinity (and NaN) as null
JsonNumber(n) == IF IsFinite(n) THEN Some(n) ELSE Null

\* JSON.stringify of an exercise: every key is written; null stays null
JsonExercise(e) ==
  [id |-> Some(e.id), name |-> Some(e.name),
   currentWeight |-> JsonNumber(e.currentWeight),
   previousWeight |-> IF IsNull(e.previousWeight) THEN Null
                      ELSE JsonNumber(e.previousWeight[1]),
   bestWeight |-> JsonNumber(e.bestWeight),
   completed |-> Some(e.completed), notes |-> Some(e.notes),
   targetSets |-> JsonNumber(e.targetSets),
   completedSets |-> JsonNumber(e.completedSets)]

JsonPlan(p) ==
  [id |-> p.id, name |-> p.name, exercises |-> Some(SeqMap(p.exercises, JsonExercise))]

\* localStorage.setItem(STORAGE_KEY, JSON.stringify(plans))
StringifyPlans(ps) == [kind |-> "array", value |-> SeqMap(ps, JsonPlan)]

\* localStorage.setItem(HISTORY_KEY, JSON.stringify(history))
StringifyHistory(h) == [kind |-> "array", value |-> h]

normalizeExercise(input) ==
  LET currentWeight == Coalesce(input.currentWeight, 0)
      targetSets == clampInt(Coalesce(input.targetSets, DefaultTargetSets),
                             MinTargetSets, MaxTargetSets)
      completedSets == clampInt(Coalesce(input.completedSets, 0), 0, targetSets)
  IN [id |-> input.id[1], name |-> input.name[1],
      currentWeight |-> currentWeight,
      previousWeight |-> input.previousWeight,
      bestWeight |-> Coalesce(input.bestWeight, currentWeight),
      completed |-> Coalesce(input.completed, completedSets >= targetSets),
      notes |-> Coalesce(input.notes, <<>>),
      targetSets |-> targetSets,
      completedSets |-> completedSets]

\* a load that leaves out the plans whose exercises field is no array
loadPlansDropsBroken(slot) ==
  IF slot.kind # "array" THEN <<>>
  ELSE SeqMap(SelectSeq(slot.value, LAMBDA plan : ~IsNull(plan.exercises)),
              LAMBDA plan :
                [id |-> plan.id, name |-> plan.name,
                 exercises |-> SeqMap(plan.exercises[1], normalizeExercise)])

\* a plan's exercises field is <<>> when it is no array, <<items>> when it is
loadPlans(slot) ==
  IF slot.kind # "array" THEN <<>>
  ELSE SeqMap(slot.value,
              LAMBDA plan :
                [id |-> plan.id, name |-> plan.name,
                 exercises |-> IF IsNull(plan.exercises) THEN <<>>
                               ELSE SeqMap(plan.exercises[1], normalizeExercise)])

loadHistory(slot) == IF slot.kind # "array" THEN <<>> ELSE slot.value

\* --------------------------------------------------------------- inputs
\* what the user may have typed into the plan name fields
NameInputs == {<<" ">>, <<"a">>, <<" ", "b", " ">>}

\* what the user may have typed into the exercise name field
ExerciseNameInputs == {<<>>, <<" ", "a">>}

\* what a weight field may hold: 20.0, 20.04, 299.0, 350, -5, abc, Infinity
WeightInputs ==
  {<<"2", "0", ".", "0">>, <<"2", "0", ".", "0", "4">>, <<"2", "9", "9", ".", "0">>,
   <<"3", "5", "0">>, <<"-", "5">>, <<"a", "b", "c">>, InfinityLiteral}

\* the deltas of changeExerciseByDelta, in hundredths: +2.5, -2.5, +0.04
DeltaInputs == {250, -250, 4}

\* the counts handed to setExerciseSets
SetsInputs == {-1, 1, 2, 3, 13}

\* the numbers of the set chips clicked
SetNumberInputs == {1, 2, 3}

\* the patches handed to updateExerciseMeta
MetaInputs ==
  {[name |-> Some(<<"b", " ">>), notes |-> Null, targetSets |-> Null],
   [name |-> Null, notes |-> Some(<<"n">>), targetSets |-> Null]}
  \cup {[name |-> Null, notes |-> Null, targetSets |-> Some(n)] : n \in {-2, 0, 1, 13}}

\* the ids a handler may be called with: every exercise of the store, and
\* one id that no exercise has
ExerciseIdInputs == ExerciseIds(plans) \cup {EmptyId}

\* a collection left in storage by an earlier session
StoredSamplePlans ==
  <<[id |-> 101, name |-> <<"p">>,
     exercises |->
       <<[id |-> 102, name |-> <<"a">>, currentWeight |-> 200,
          previousWeight |-> Some(175), bestWeight |-> 225, completed |-> FALSE,
          notes |-> <<>>, targetSets |-> 3, completedSets |-> 2],
         [id |-> 103, name |-> <<"b">>, currentWeight |-> 10,
          previousWeight |-> Null, bestWeight |-> 10, completed |-> TRUE,
          notes |-> <<"n">>, targetSets |-> 3, completedSets |-> 3]>>]>>

InitialPlanSlots == {AbsentSlot, GarbageSlot, ObjectSlot, StringifyPlans(StoredSamplePlans)}
InitialHistorySlots == {AbsentSlot, GarbageSlot}

\* ----------------------------------------------------------------- Init
\* The state after the first render of App, before its effects have run;
\* budget is the number of handler calls the run may make.
InitWith(planSlot, historySlot, budget) ==
  /\ storedPlans = planSlot
  /\ storedHistory = historySlot
  /\ plans = loadPlans(planSlot)
  /\ history = loadHistory(historySlot)
  /\ activePlanId = EmptyId
  /\ restSeconds = InitialRestSeconds
  /\ restRunning = FALSE
  /\ pending = {"plans", "history", "active"}
  /\ nextId = 1
  /\ steps = MaxSteps - budget

Init == \E ps \in InitialPlanSlots, hs \in InitialHistorySlots : InitWith(ps, hs, MaxSteps)

\* ---------------------------------------------------------------- steps
\* A handler runs after the effects of the last render have run.
Event ==
  /\ pending = {}
  /\ steps < MaxSteps
  /\ steps' = steps + 1

\* a store handler that also resets the rest timer
StoreEventResetsTimer ==
  /\ Event
  /\ restSeconds' = InitialRestSeconds
  /\ restRunning' = FALSE
  /\ UNCHANGED slotVars

StoreEvent == Event /\ UNCHANGED <<timerVars, slotVars>>

\* setPlans((previous) => previous.map(... the active plan's exercises ...))
SetActiveExercises(F(_)) ==
  /\ plans' = MapPlan(plans, activePlan[1].id, F)
  /\ pending' = {"plans"}

createPlan(planName) ==
  LET name == Trim(planName)
  IN /\ StoreEvent
     /\ IF name = <<>>
        THEN UNCHANGED <<plans, activePlanId, nextId, pending>>
        ELSE /\ plans' = <<[id |-> nextId, name |-> name, exercises |-> <<>>]>> \o plans
             /\ activePlanId' = nextId
             /\ nextId' = nextId + 1
             /\ pending' = {"plans", "active"}
     /\ UNCHANGED history

\* an addExercise that puts the new exercise in front
addExercisePrepending(exerciseName, exerciseWeight) ==
  LET name == Trim(exerciseName)
      parsedWeight == ParseFloat(exerciseWeight)
  IN /\ StoreEvent
     /\ IF IsNull(activePlan) \/ name = <<>> \/ IsNull(parsedWeight) \/ parsedWeight[1] < 0
        THEN UNCHANGED <<plans, nextId, pending>>
        ELSE /\ SetActiveExercises(
                  LAMBDA es : <<NewExercise(nextId, name, ToFixed1(parsedWeight[1]))>> \o es)
             /\ nextId' = nextId + 1
     /\ UNCHANGED <<history, activePlanId>>

addExercise(exerciseName, exerciseWeight) ==
  LET name == Trim(exerciseName)
      parsedWeight == ParseFloat(exerciseWeight)
  IN /\ StoreEvent
     /\ IF IsNull(activePlan) \/ name = <<>> \/ IsNull(parsedWeight) \/ parsedWeight[1] < 0
        THEN UNCHANGED <<plans, nextId, pending>>
        ELSE /\ SetActiveExercises(
                  LAMBDA es : es \o <<NewExercise(nextId, name, ToFixed1(parsedWeight[1]))>>)
             /\ nextId' = nextId + 1
     /\ UNCHANGED <<history, activePlanId>>

\* an updateExerciseWeight that does not turn negative numbers away
updateExerciseWeightUnvalidated(exerciseId, value) ==
  LET parsedWeight == ParseFloat(value)
  IN /\ StoreEvent
     /\ IF IsNull(parsedWeight) \/ IsNull(activePlan)
        THEN UNCHANGED <<plans, pending>>
        ELSE SetActiveExercises(
               LAMBDA es : MapExercise(es, exerciseId,
                                       LAMBDA e : WeightWrite(e, ToFixed1(parsedWeight[1]))))
     /\ UNCHANGED <<history, activePlanId, nextId>>

updateExerciseWeight(exerciseId, value) ==
  LET parsedWeight == ParseFloat(value)
  IN /\ StoreEvent
     /\ IF IsNull(parsedWeight) \/ parsedWeight[1] < 0 \/ IsNull(activePlan)
        THEN UNCHANGED <<plans, pending>>
        ELSE SetActiveExercises(
               LAMBDA es : MapExercise(es, exerciseId,
                                       LAMBDA e : WeightWrite(e, ToFixed1(parsedWeight[1]))))
     /\ UNCHANGED <<history, activePlanId, nextId>>

changeExerciseByDelta(exerciseId, delta) ==
  /\ StoreEvent
  /\ IF IsNull(activePlan)
     THEN UNCHANGED <<plans, pending>>
     ELSE SetActiveExercises(
            LAMBDA es : MapExercise(es, exerciseId, LAMBDA e : DeltaWrite(e, delta)))
  /\ UNCHANGED <<history, activePlanId, nextId>>

setExerciseCompleted(exerciseId, completed) ==
  /\ StoreEvent
  /\ IF IsNull(activePlan)
     THEN UNCHANGED <<plans, pending>>
     ELSE SetActiveExercises(
            LAMBDA es : MapExercise(es, exerciseId, LAMBDA e : CompletedWrite(e, completed)))
  /\ UNCHANGED <<history, activePlanId, nextId>>

\* a setExerciseSets that writes the count into every exercise of the plan
setExerciseSetsWholePlan(exerciseId, nextCompletedSets) ==
  /\ StoreEvent
  /\ IF IsNull(activePlan)
     THEN UNCHANGED <<plans, pending>>
     ELSE SetActiveExercises(
            LAMBDA es : [j \in 1..Len(es) |-> SetsWrite(es[j], nextCompletedSets)])
  /\ UNCHANGED <<history, activePlanId, nextId>>

setExerciseSets(exerciseId, nextCompletedSets) ==
  /\ StoreEvent
  /\ IF IsNull(activePlan)
     THEN UNCHANGED <<plans, pending>>
     ELSE SetActiveExercises(
            LAMBDA es : MapExercise(es, exerciseId,
                                    LAMBDA e : SetsWrite(e, nextCompletedSets)))
  /\ UNCHANGED <<history, activePlanId, nextId>>

\* a chip that sets completedSets to its own number, done or not
ChipTargetOwnNumber(exercise, setNumber) == setNumber

\* the count a set chip hands to setExerciseSets: done = setNumber <=
\* exercise.completedSets; done ? setNumber - 1 : setNumber
ChipTarget(exercise, setNumber) ==
  IF setNumber <= exercise.completedSets THEN setNumber - 1 ELSE setNumber

\* a click on chip setNumber of an exercise of the active plan; the chips
\* rendered are those of 1..targetSets
setChipClick(exerciseId, setNumber) ==
  /\ ~IsNull(activePlan)
  /\ \E j \in 1..Len(activePlan[1].exercises) :
       LET exercise == activePlan[1].exercises[j]
       IN /\ exercise.id = exerciseId
          /\ setNumber <= exercise.targetSets
          /\ setExerciseSets(exerciseId, ChipTarget(exercise, setNumber))

updateExerciseMeta(exerciseId, patch) ==
  /\ StoreEvent
  /\ IF IsNull(activePlan)
     THEN UNCHANGED <<plans, pending>>
     ELSE SetActiveExercises(
            LAMBDA es : MapExercise(es, exerciseId, LAMBDA e : MetaWrite(e, patch)))
  /\ UNCHANGED <<history, activePlanId, nextId>>

deleteExercise(exerciseId) ==
  /\ StoreEvent
  /\ IF IsNull(activePlan)
     THEN UNCHANGED <<plans, pending>>
     ELSE SetActiveExercises(LAMBDA es : RemoveById(es, exerciseId))
  /\ UNCHANGED <<history, activePlanId, nextId>>

\* a rename that does not look at the plan's id
renameEveryPlan(planEditName) ==
  LET nextName == Trim(planEditName)
  IN /\ StoreEvent
     /\ IF IsNull(activePlan) \/ nextName = <<>>
        THEN UNCHANGED <<plans, pending>>
        ELSE /\ plans' = [i \in 1..Len(plans) |-> [plans[i] EXCEPT !.name = nextName]]
             /\ pending' = {"plans"}
     /\ UNCHANGED <<history, activePlanId, nextId>>

\* a rename that reaches into the recorded workouts of the plan
renameActivePlanAndHistory(planEditName) ==
  LET nextName == Trim(planEditName)
  IN /\ StoreEvent
     /\ IF IsNull(activePlan) \/ nextName = <<>>
        THEN UNCHANGED <<plans, history, pending>>
        ELSE /\ plans' = [i \in 1..Len(plans) |->
                            IF plans[i].id = activePlan[1].id
                            THEN [plans[i] EXCEPT !.name = nextName]
                            ELSE plans[i]]
             /\ history' = [i \in 1..Len(history) |->
                              IF history[i].planId = activePlan[1].id
                              THEN [history[i] EXCEPT !.planName = nextName]
                              ELSE history[i]]
             /\ pending' = {"plans", "history"}
     /\ UNCHANGED <<activePlanId, nextId>>

renameActivePlan(planEditName) ==
  LET nextName == Trim(planEditName)
  IN /\ StoreEvent
     /\ IF IsNull(activePlan) \/ nextName = <<>>
        THEN UNCHANGED <<plans, pending>>
        ELSE /\ plans' = [i \in 1..Len(plans) |->
                            IF plans[i].id = activePlan[1].id
                            THEN [plans[i] EXCEPT !.name = nextName]
                            ELSE plans[i]]
             /\ pending' = {"plans"}
     /\ UNCHANGED <<history, activePlanId, nextId>>

deleteActivePlan ==
  /\ StoreEvent
  /\ IF IsNull(activePlan)
     THEN UNCHANGED <<plans, pending>>
     ELSE /\ plans' = RemoveById(plans, activePlan[1].id)
          /\ pending' = {"plans"}
  /\ UNCHANGED <<history, activePlanId, nextId>>

moveExercise(dragId, targetId) ==
  /\ StoreEvent
  /\ IF IsNull(activePlan) \/ dragId = targetId
     THEN UNCHANGED <<plans, pending>>
     ELSE SetActiveExercises(LAMBDA es : MoveWrite(es, dragId, targetId))
  /\ UNCHANGED <<history, activePlanId, nextId>>

\* a finishTraining that records a plan without exercises too
finishTrainingEmptyToo ==
  /\ StoreEvent
  /\ IF IsNull(activePlan)
     THEN UNCHANGED <<plans, history, nextId, pending>>
     ELSE /\ history' = Slice0(<<HistoryEntry(nextId, steps, activePlan[1])>> \o history,
                               HistoryCap)
          /\ plans' = MapPlan(plans, activePlan[1].id, LAMBDA es : SeqMap(es, FinishReset))
          /\ nextId' = nextId + 1
          /\ pending' = {"plans", "history"}
  /\ UNCHANGED activePlanId

finishTraining ==
  /\ StoreEvent
  /\ IF IsNull(activePlan) \/ Len(activePlan[1].exercises) = 0
     THEN UNCHANGED <<plans, history, nextId, pending>>
     ELSE /\ history' = Slice0(<<HistoryEntry(nextId, steps, activePlan[1])>> \o history,
                               HistoryCap)
          /\ plans' = MapPlan(plans, activePlan[1].id, LAMBDA es : SeqMap(es, FinishReset))
          /\ nextId' = nextId + 1
          /\ pending' = {"plans", "history"}
  /\ UNCHANGED activePlanId

\* a plan card or a plan <select>: setActivePlanId(plan.id)
selectPlan(planId) ==
  /\ StoreEvent
  /\ activePlanId' = planId
  /\ pending' = IF planId = activePlanId THEN {} ELSE {"active"}
  /\ UNCHANGED <<plans, history, nextId>>

\* ------------------------------------------------------------ rest timer
\* The buttons of the rest timer are rendered with the active plan.  The
\* effect on [restRunning] starts the interval when restRunning turns true
\* and clears it when restRunning turns false, so an interval ticks exactly
\* while restRunning is true.
TimerEvent ==
  /\ Event
  /\ ~IsNull(activePlan)
  /\ UNCHANGED <<storeVars, slotVars, pending, nextId>>

\* the button 90s: setRestSeconds(90)
restNinety ==
  /\ TimerEvent
  /\ restSeconds' = 90
  /\ UNCHANGED restRunning

\* the button +30s: setRestSeconds((s) => s + 30)
restPlusThirty ==
  /\ TimerEvent
  /\ restSeconds' = restSeconds + RestIncrement
  /\ UNCHANGED restRunning

\* the button Start / Pause: setRestRunning((running) => !running)
restToggle ==
  /\ TimerEvent
  /\ restRunning' = ~restRunning
  /\ UNCHANGED restSeconds

\* a tick that counts down and never stops the timer
restTickNeverStops ==
  /\ restRunning
  /\ restSeconds' = IF restSeconds <= 1 THEN 0 ELSE restSeconds - 1
  /\ UNCHANGED <<restRunning, storeVars, slotVars, pending, nextId, steps>>

\* the callback of the interval: previous <= 1 ? (stop, 0) : previous - 1
restTick ==
  /\ restRunning
  /\ IF restSeconds <= 1
     THEN restSeconds' = 0 /\ restRunning' = FALSE
     ELSE restSeconds' = restSeconds - 1 /\ UNCHANGED restRunning
  /\ UNCHANGED <<storeVars, slotVars, pending, nextId, steps>>

\* a repair that puts the selection on the first plan whatever it was
repairedAlwaysFirst ==
  IF Len(plans) = 0 THEN EmptyId ELSE plans[1].id

\* a repair that moves the selection and never clears it
repairedNeverCleared ==
  IF Len(plans) = 0 THEN activePlanId
  ELSE IF \E i \in 1..Len(plans) : plans[i].id = activePlanId THEN activePlanId
  ELSE plans[1].id

\* a repair that clears the selection when no plan is left and never moves it
repairedOnlyWhenEmpty ==
  IF Len(plans) = 0 THEN EmptyId ELSE activePlanId

\* The effects of a render, in the order of their declaration: the two
\* persistence effects run when their collection was set, the active-plan
\* repair when plans or activePlanId was set.
repairedActivePlanId ==
  IF Len(plans) = 0 THEN EmptyId
  ELSE IF \E i \in 1..Len(plans) : plans[i].id = activePlanId THEN activePlanId
  ELSE plans[1].id

\* effects that do not write an empty collection
runEffectsSkipEmpty ==
  /\ pending # {}
  /\ storedPlans' = IF "plans" \in pending /\ plans # <<>> THEN StringifyPlans(plans)
                    ELSE storedPlans
  /\ storedHistory' = IF "history" \in pending /\ history # <<>>
                      THEN StringifyHistory(history)
                      ELSE storedHistory
  /\ activePlanId' = IF pending \cap {"plans", "active"} # {} THEN repairedActivePlanId
                     ELSE activePlanId
  /\ pending' = IF activePlanId' # activePlanId THEN {"active"} ELSE {}
  /\ UNCHANGED <<plans, history, timerVars, nextId, steps>>

\* effects that do not write the history slot
runEffectsPlansOnly ==
  /\ pending # {}
  /\ storedPlans' = IF "plans" \in pending THEN StringifyPlans(plans) ELSE storedPlans
  /\ activePlanId' = IF pending \cap {"plans", "active"} # {} THEN repairedActivePlanId
                     ELSE activePlanId
  /\ pending' = IF activePlanId' # activePlanId THEN {"active"} ELSE {}
  /\ UNCHANGED <<plans, history, storedHistory, timerVars, nextId, steps>>

runEffects ==
  /\ pending # {}
  /\ storedPlans' = IF "plans" \in pending THEN StringifyPlans(plans) ELSE storedPlans
  /\ storedHistory' = IF "history" \in pending THEN StringifyHistory(history)
                      ELSE storedHistory
  /\ activePlanId' = IF pending \cap {"plans", "active"} # {} THEN repairedActivePlanId
                     ELSE activePlanId
  /\ pending' = IF activePlanId' # activePlanId THEN {"active"} ELSE {}
  /\ UNCHANGED <<plans, history, timerVars, nextId, steps>>

Next ==
  \/ \E n \in NameInputs : createPlan(n)
  \/ \E n \in ExerciseNameInputs, w \in WeightInputs : addExercise(n, w)
  \/ \E e \in ExerciseIdInputs, w \in WeightInputs : updateExerciseWeight(e, w)
  \/ \E e \in ExerciseIdInputs, d \in DeltaInputs : changeExerciseByDelta(e, d)
  \/ \E e \in ExerciseIdInputs, c \in BOOLEAN : setExerciseCompleted(e, c)
  \/ \E e \in ExerciseIdInputs, n \in SetsInputs : setExerciseSets(e, n)
  \/ \E e \in ExerciseIdInputs, k \in SetNumberInputs : setChipClick(e, k)
  \/ \E e \in ExerciseIdInputs, p \in MetaInputs : updateExerciseMeta(e, p)
  \/ \E e \in ExerciseIdInputs : deleteExercise(e)
  \/ \E n \in NameInputs : renameActivePlan(n)
  \/ deleteActivePlan
  \/ \E d \in ExerciseIdInputs, t \in ExerciseIdInputs : moveExercise(d, t)
  \/ finishTraining
  \/ \E p \in PlanIds(plans) : selectPlan(p)
  \/ runEffects

Spec == Init /\ [][Next]_vars

\* React runs the effects of a render once it is committed.
SpecFair == Spec /\ WF_vars(runEffects)

\* The app started on the stored sample; the user does nothing but press the
\* buttons of the rest timer.
InitTimer == InitWith(StringifyPlans(StoredSamplePlans), AbsentSlot, MaxTimerSteps)

NextTimer ==
  \/ restNinety
  \/ restPlusThirty
  \/ restToggle
  \/ restTick
  \/ runEffects

SpecTimer == InitTimer /\ [][NextTimer]_vars

\* setInterval calls its callback every second while the interval exists.
SpecTimerFair == SpecTimer /\ WF_vars(restTick)

\* The app started on a stored plan of one exercise; the rest timer runs
\* beside the handlers of the store.
StoredLonePlan ==
  <<[StoredSamplePlans[1] EXCEPT !.exercises = <<StoredSamplePlans[1].exercises[1]>>]>>

InitBeside == InitWith(StringifyPlans(StoredLonePlan), AbsentSlot, MaxBesideSteps)

NextBeside ==
  \/ Next
  \/ restNinety
  \/ restPlusThirty
  \/ restToggle
  \/ restTick

SpecBeside == InitBeside /\ [][NextBeside]_vars

\* The app started on a plan left by an earlier session in which exercise
\* 102, added at 20.0, was raised to 22.5: a personal record.
StoredPrPlans ==
  <<[id |-> 101, name |-> <<"p">>,
     exercises |->
       <<[id |-> 102, name |-> <<"a">>, currentWeight |-> 225,
          previousWeight |-> Some(200), bestWeight |-> 225, completed |-> FALSE,
          notes |-> <<>>, targetSets |-> 3, completedSets |-> 2],
         [id |-> 103, name |-> <<"b">>, currentWeight |-> 10,
          previousWeight |-> Null, bestWeight |-> 10, completed |-> TRUE,
          notes |-> <<"n">>, targetSets |-> 3, completedSets |-> 3]>>]>>

InitPr == InitWith(StringifyPlans(StoredPrPlans), AbsentSlot, MaxSteps)

SpecPr == InitPr /\ [][Next]_vars

\* The app started on an empty storage.
InitEmpty == InitWith(AbsentSlot, AbsentSlot, MaxEmptySteps)
SpecEmpty == InitEmpty /\ [][Next]_vars

\* The app started on the stored sample and a history one entry short of
\* the cap, written by earlier sessions: entry i was recorded i time units
\* before this session.
StoredHistoryEntry(i) ==
  [id |-> 200 + i, dateIso |-> -i, planId |-> 101, planName |-> <<"p">>,
   exercises |-> <<[name |-> <<"a">>, weight |-> 200, completedSets |-> 3,
                    targetSets |-> 3, isPr |-> FALSE]>>]

StoredSampleHistory == [i \in 1..(HistoryCap - 1) |-> StoredHistoryEntry(i)]

InitHistory ==
  InitWith(StringifyPlans(StoredSamplePlans), StringifyHistory(StoredSampleHistory), MaxSteps)

SpecHistory == InitHistory /\ [][Next]_vars

\* The app started on a storage that holds two plans.
StoredTwoPlans ==
  StoredSamplePlans \o
  <<[id |-> 104, name |-> <<"q">>,
     exercises |->
       <<[id |-> 105, name |-> <<"c">>, currentWeight |-> 400,
          previousWeight |-> Null, bestWeight |-> 400, completed |-> FALSE,
          notes |-> <<>>, targetSets |-> 2, completedSets |-> 0]>>]>>

InitPlans == InitWith(StringifyPlans(StoredTwoPlans), AbsentSlot, MaxSteps)

SpecPlans == InitPlans /\ [][Next]_vars

\* React runs the effects of a render once it is committed.
SpecPlansFair == SpecPlans /\ WF_vars(runEffects)

\* The app started on the stored sample; the user does nothing but click set
\* chips.
InitChips == InitWith(StringifyPlans(StoredSamplePlans), AbsentSlot, MaxChipSteps)

NextChips ==
  \/ \E e \in ExerciseIdInputs, k \in SetNumberInputs : setChipClick(e, k)
  \/ runEffects

SpecChips == InitChips /\ [][NextChips]_vars

\* The app started on any of these storage contents: no key, text that is no
\* JSON, JSON that is no array, the two stored plans, and an array in which
\* the first plan has an exercises field that is no array.
StoredBrokenPlans ==
  [kind |-> "array",
   value |-> <<[id |-> 101, name |-> <<"p">>, exercises |-> Null],
               JsonPlan(StoredTwoPlans[2])>>]

LoadPlanSlots ==
  {AbsentSlot, GarbageSlot, ObjectSlot, StringifyPlans(StoredTwoPlans), StoredBrokenPlans}

LoadHistorySlots ==
  {AbsentSlot, GarbageSlot, ObjectSlot, StringifyHistory(<<StoredHistoryEntry(1)>>)}

InitLoad ==
  \E ps \in LoadPlanSlots, hs \in LoadHistorySlots : InitWith(ps, hs, MaxLoadSteps)

SpecLoad == InitLoad /\ [][Next]_vars

\* React runs the effects of a render once it is committed.
SpecLoadFair == SpecLoad /\ WF_vars(runEffects)

\* ------------------------------------------------ vocabulary of the claims
AllExercises(ps) ==
  UNION {{ps[i].exercises[j] : j \in 1..Len(ps[i].exercises)} : i \in 1..Len(ps)}

ExerciseOf(ps, id) == CHOOSE e \in AllExercises(ps) : e.id = id

\* the exercises that exist before and after a step
StayingIds == ExerciseIds(plans) \cap ExerciseIds(plans')

\* the ids of the exercises of the active plan
ActiveExerciseIds ==
  IF IsNull(activePlan) THEN {}
  ELSE {activePlan[1].exercises[j].id : j \in 1..Len(activePlan[1].exercises)}

\* the weight a valid weight text asks for, in tenths
RequestedWeight(value) == ToFixed1(ParseFloat(value)[1])
ValidWeightInputs == {w \in WeightInputs : ~IsNull(ParseFloat(w)) /\ ParseFloat(w)[1] >= 0}

\* t is text with the white space at its two ends taken off
IsTrimOf(t, text) ==
  /\ \E i \in 0..Len(text) :
       /\ i + Len(t) <= Len(text)
       /\ t = SubSeq(text, i + 1, i + Len(t))
       /\ \A k \in (1..i) \cup ((i + Len(t) + 1)..Len(text)) : text[k] = " "
  /\ t # <<>> => (t[1] # " " /\ t[Len(t)] # " ")

\* b holds the items of a, each as often as a does
CountOf(s, x) == Cardinality({i \in 1..Len(s) : s[i] = x})

IsPermutation(a, b) ==
  /\ Len(a) = Len(b)
  /\ \A i \in 1..Len(a) : CountOf(b, a[i]) = CountOf(a, a[i])

\* s without the items of the given id
Without(s, id) == SelectSeq(s, LAMBDA x : x.id # id)

\* the place of the exercise of the given id in es
PlaceOf(es, id) == CHOOSE k \in 1..Len(es) : es[k].id = id

\* the offsets of moveExerciseByOffset
OffsetInputs == {-1, 1}

\* ------------------------------------------------------------------- C1
\* C1: a call of updateExerciseWeight or changeExerciseByDelta on an exercise
\* of the active plan whose resulting weight differs from currentWeight leaves
\* previousWeight = the currentWeight before the call and bestWeight = the
\* larger of the bestWeight before the call and the new currentWeight.
C1_Shifted(old, new) ==
  /\ new.previousWeight = Some(old.currentWeight)
  /\ new.bestWeight = Max(old.bestWeight, new.currentWeight)

C1_WeightChangeShifts ==
  [][/\ \A e \in ActiveExerciseIds, w \in ValidWeightInputs :
          (updateExerciseWeight(e, w)
             /\ RequestedWeight(w) # ExerciseOf(plans, e).currentWeight)
          => /\ ExerciseOf(plans', e).currentWeight = RequestedWeight(w)
             /\ C1_Shifted(ExerciseOf(plans, e), ExerciseOf(plans', e))
     /\ \A e \in ActiveExerciseIds, d \in DeltaInputs :
          (changeExerciseByDelta(e, d)
             /\ ExerciseOf(plans', e).currentWeight # ExerciseOf(plans, e).currentWeight)
          => C1_Shifted(ExerciseOf(plans, e), ExerciseOf(plans', e))]_vars

\* the stored exercise 102 (20.0 kg, best 22.5) was raised above its best
C1_Witness ==
  \E e \in AllExercises(plans) :
    e.id = 102 /\ e.previousWeight = Some(200) /\ e.bestWeight = e.currentWeight

\* ------------------------------------------------------------------- C2
\* C2: every weight change that modifies currentWeight resets that exercise's
\* completedSets to 0.
C2_WeightChangeResetsSets ==
  [][\A id \in StayingIds :
       ExerciseOf(plans', id).currentWeight # ExerciseOf(plans, id).currentWeight
       => ExerciseOf(plans', id).completedSets = 0]_vars

\* ------------------------------------------------------------------- C3
\* C3: in every reachable state every exercise has
\* 0 <= completedSets <= targetSets.
C3_SetsInRange ==
  \A e \in AllExercises(plans) : 0 <= e.completedSets /\ e.completedSets <= e.targetSets

\* targetSets was lowered below the completedSets the exercise had
C3_Witness ==
  \E e \in AllExercises(plans) :
    e.id = 102 /\ e.targetSets = 1 /\ e.completedSets = 1

\* ------------------------------------------------------------------- C4
\* C4: in every reachable state every exercise's currentWeight is in
\* [0, MAX], whatever value is passed to addExercise or updateExerciseWeight.
C4_WeightInRange ==
  \A e \in AllExercises(plans) : 0 <= e.currentWeight /\ e.currentWeight <= MaxWeight

\* ------------------------------------------------------------------- C5
\* C5: in every state reachable from an empty store every exercise has
\* bestWeight >= currentWeight.
C5_BestAtLeastCurrent ==
  \A e \in AllExercises(plans) : e.bestWeight >= e.currentWeight

\* an exercise was raised to 299.0 and lowered to 20.0
C5_Witness ==
  \E e \in AllExercises(plans) :
    e.bestWeight = 2990 /\ e.currentWeight = 200 /\ ~IsNull(e.previousWeight)

\* ------------------------------------------------------------------- C6
\* C6: no step lowers the bestWeight of an exercise that exists before and
\* after it.
C6_BestNeverDrops ==
  [][\A id \in StayingIds :
       ExerciseOf(plans', id).bestWeight >= ExerciseOf(plans, id).bestWeight]_vars

\* the weight was just lowered from the best
C6_Witness ==
  \E e \in AllExercises(plans) :
    e.currentWeight < e.bestWeight /\ e.previousWeight = Some(e.bestWeight)

\* ------------------------------------------------------------------- C7
\* C7: an exercise's previousWeight is null or differs from its
\* currentWeight, in every state reachable from an empty store; a step that leaves currentWeight
\* as it was (a weight write equal to the current weight) leaves
\* previousWeight as it was.
C7_PreviousDiffers ==
  \A e \in AllExercises(plans) :
    IsNull(e.previousWeight) \/ e.previousWeight[1] # e.currentWeight

C7_PreviousNeverCurrent ==
  /\ []C7_PreviousDiffers
  /\ [][\A id \in StayingIds :
          ExerciseOf(plans', id).currentWeight = ExerciseOf(plans, id).currentWeight
          => ExerciseOf(plans', id).previousWeight = ExerciseOf(plans, id).previousWeight]_vars

C7_Witness ==
  \E e \in AllExercises(plans) : e.previousWeight = Some(200) /\ e.currentWeight = 2990

\* ------------------------------------------------------------------- C8
\* C8: updateExerciseWeight called a second time with the same value on the
\* same exercise changes nothing: the plans after the second call are the
\* plans after the first.
C8_SecondCall(e, w) ==
  MapPlan(plans', activePlan[1].id,
          LAMBDA es : MapExercise(es, e, LAMBDA x : WeightWrite(x, RequestedWeight(w))))

C8_UpdateIdempotent ==
  [][\A e \in ActiveExerciseIds, w \in ValidWeightInputs :
       updateExerciseWeight(e, w) => C8_SecondCall(e, w) = plans']_vars

C8_Witness ==
  \E e \in AllExercises(plans) : e.currentWeight = 3500 /\ ~IsNull(e.previousWeight)

\* ------------------------------------------------------------------- C9
\* C9: changeExerciseByDelta sets currentWeight to
\* clamp(currentWeight + delta, 0, MAX), rounded to one decimal, and leaves
\* the exercise as it was when that equals currentWeight.
C9_Target(old, d) ==
  LET raw == ToFixed1(10 * old.currentWeight + d)
  IN IF raw < 0 THEN 0 ELSE IF raw > MaxWeight THEN MaxWeight ELSE raw

C9_DeltaClamps ==
  [][\A e \in ActiveExerciseIds, d \in DeltaInputs :
       changeExerciseByDelta(e, d)
       => LET old == ExerciseOf(plans, e)
              new == ExerciseOf(plans', e)
          IN /\ new.currentWeight = C9_Target(old, d)
             /\ C9_Target(old, d) = old.currentWeight => new = old]_vars

\* 299.0 + 2.5 was cut to the ceiling
C9_Witness ==
  \E e \in AllExercises(plans) :
    e.currentWeight = MaxWeight /\ e.previousWeight = Some(2990)

\* ------------------------------------------------------------------ C10
\* C10: finishTraining on an active plan with N >= 1 exercises puts one new
\* entry at the head of history, with N snapshots in plan order that hold the
\* name, currentWeight, completedSets and targetSets of before the call;
\* afterwards every exercise of the plan has completedSets = 0 and the
\* currentWeight, bestWeight and previousWeight it had.
C10_Post ==
  LET before == activePlan[1].exercises
      after == FindPlan(plans', activePlan[1].id)[1].exercises
      entry == Head(history')
  IN /\ Len(history') = Min(Len(history) + 1, HistoryCap)
     /\ Tail(history') = SubSeq(history, 1, Len(history') - 1)
     /\ Len(entry.exercises) = Len(before)
     /\ \A j \in 1..Len(before) :
          /\ entry.exercises[j].name = before[j].name
          /\ entry.exercises[j].weight = before[j].currentWeight
          /\ entry.exercises[j].completedSets = before[j].completedSets
          /\ entry.exercises[j].targetSets = before[j].targetSets
     /\ Len(after) = Len(before)
     /\ \A j \in 1..Len(before) :
          /\ after[j].id = before[j].id
          /\ after[j].completedSets = 0
          /\ after[j].currentWeight = before[j].currentWeight
          /\ after[j].bestWeight = before[j].bestWeight
          /\ after[j].previousWeight = before[j].previousWeight

C10_FinishSnapshots ==
  [][(finishTraining /\ ~IsNull(activePlan) /\ Len(activePlan[1].exercises) >= 1)
     => C10_Post]_vars

C10_Witness ==
  /\ Len(history) = 1
  /\ Len(history[1].exercises) = 2
  /\ history[1].exercises[1].completedSets = 2
  /\ \A e \in AllExercises(plans) : e.completedSets = 0

\* ------------------------------------------------------------------ C11
\* C11: finishTraining called when no plan is active, or when the active plan
\* has no exercises, leaves history and plans as they were.
C11_FinishNoOp ==
  [][(finishTraining /\ (IsNull(activePlan) \/ Len(activePlan[1].exercises) = 0))
     => UNCHANGED <<plans, history>>]_vars

\* two handler calls were made, the active plan has no exercise and nothing
\* was recorded
C11_Witness ==
  /\ steps = MaxSteps
  /\ pending = {}
  /\ ~IsNull(activePlan)
  /\ Len(activePlan[1].exercises) = 0
  /\ history = <<>>

\* ------------------------------------------------------------------ C12
\* C12: every snapshot written by finishTraining has isPr true exactly when
\* the exercise, as it is when finishTraining is called, has a previousWeight,
\* currentWeight >= bestWeight and currentWeight > previousWeight; previous
\* 18.0 / best 20.0 / current 20.0 gives true, current 19.0 with best 20.0
\* gives false.
C12_Expected(e) ==
  IF e.previousWeight = <<>> THEN FALSE
  ELSE e.currentWeight >= e.bestWeight /\ e.currentWeight > e.previousWeight[1]

C12_Examples ==
  /\ IsPr([previousWeight |-> <<180>>, bestWeight |-> 200, currentWeight |-> 200])
  /\ ~IsPr([previousWeight |-> <<180>>, bestWeight |-> 200, currentWeight |-> 190])

C12_IsPrAtFinish ==
  /\ []C12_Examples
  /\ [][(finishTraining /\ ~IsNull(activePlan) /\ Len(activePlan[1].exercises) >= 1)
        => \A j \in 1..Len(activePlan[1].exercises) :
             Head(history').exercises[j].isPr = C12_Expected(activePlan[1].exercises[j])]_vars

\* the stored exercise 102 was raised to 299.0 and the workout finished: its
\* snapshot is a record, that of exercise 103 (no previousWeight) is none
C12_Witness ==
  /\ Len(history) = 1
  /\ Len(history[1].exercises) = 2
  /\ history[1].exercises[1].weight = 2990
  /\ history[1].exercises[1].isPr
  /\ ~history[1].exercises[2].isPr

\* ------------------------------------------------------------------ C13
\* C13: history never holds more than the cap (40; 60 in the v3 variant) and
\* is ordered newest first; a recording finishTraining puts the new entry at
\* the head, keeps the entries it retains in their order, and at the cap
\* drops exactly the last (oldest) one; no other step changes history.
C13_Ordered ==
  /\ Len(history) <= HistoryCap
  /\ \A i \in 1..(Len(history) - 1) : history[i].dateIso > history[i + 1].dateIso

C13_Appended(before, after, cap) ==
  /\ Len(after) = (IF Len(before) >= cap THEN cap ELSE Len(before) + 1)
  /\ \A i \in 2..Len(after) : after[i] = before[i - 1]

\* the v3 update on histories one short of its cap and at its cap
C13_V3Appended ==
  \A n \in {HistoryCapV3 - 1, HistoryCapV3} :
    LET prev == [i \in 1..n |-> StoredHistoryEntry(i)]
        after == finishWorkoutHistory(StoredHistoryEntry(0), prev)
    IN Head(after) = StoredHistoryEntry(0) /\ C13_Appended(prev, after, HistoryCapV3)

C13_HistoryCapped ==
  /\ [](C13_Ordered /\ C13_V3Appended)
  /\ [][IF finishTraining /\ ~IsNull(activePlan) /\ Len(activePlan[1].exercises) >= 1
        THEN /\ Head(history').id = nextId
             /\ Head(history').dateIso = steps
             /\ C13_Appended(history, history', HistoryCap)
        ELSE history' = history]_vars

\* two workouts were finished on a history of 39: the oldest stored entry is
\* gone, the second oldest is last
C13_Witness ==
  /\ Len(history) = HistoryCap
  /\ history[1].id < 100 /\ history[2].id < 100
  /\ history[HistoryCap] = StoredHistoryEntry(HistoryCap - 2)

\* ------------------------------------------------------------------ C14
\* C14: no step changes a recorded history entry: an entry that is still in
\* history after the step is what it was, planName and snapshots included, and
\* an entry leaves history only as the last one of a full history, when a new
\* entry is recorded.
C14_HistoryFrozen ==
  [][\A i \in 1..Len(history) :
       /\ \A j \in 1..Len(history') :
            history'[j].id = history[i].id => history'[j] = history[i]
       /\ (\A j \in 1..Len(history') : history'[j].id # history[i].id)
          => /\ i = HistoryCap
             /\ Len(history') = HistoryCap
             /\ Head(history').id = nextId]_vars

\* a workout of plan 101 was recorded in this session under the name "p";
\* the plan was renamed afterwards
C14_Witness ==
  /\ history # <<>>
  /\ Head(history).id < 100
  /\ Head(history).planId = 101
  /\ Head(history).planName = <<"p">>
  /\ \E i \in 1..Len(plans) : plans[i].id = 101 /\ plans[i].name = <<"a">>

\* ------------------------------------------------------------------ C15
\* C15: in every reachable state activePlanId is empty or the id of a plan of
\* the plans collection, the state between deleteActivePlan and the repair
\* effect included.
C15_ActivePlanValid ==
  activePlanId = EmptyId \/ activePlanId \in PlanIds(plans)

\* ------------------------------------------------------------------ C16
\* C16: deleteActivePlan takes the active plan out of plans and leaves the
\* other plans as they were, in their order; the selection it leaves behind
\* is moved by the effects that follow, before any other handler runs, to the
\* first remaining plan, or cleared when no plan remains.
C16_Dangling ==
  activePlanId # EmptyId /\ activePlanId \notin PlanIds(plans)

C16_Settled ==
  activePlanId = (IF plans = <<>> THEN EmptyId ELSE plans[1].id)

C16_DeleteThenRepair ==
  /\ [][(deleteActivePlan /\ ~IsNull(activePlan))
        => \E k \in 1..Len(plans) :
             /\ plans[k].id = activePlanId
             /\ plans' = SubSeq(plans, 1, k - 1) \o SubSeq(plans, k + 1, Len(plans))
             /\ activePlanId \notin PlanIds(plans')]_vars
  /\ [][C16_Dangling => (plans' = plans /\ C16_Settled')]_vars
  /\ (C16_Dangling ~> C16_Settled)

\* a plan was created in front of the two stored plans and deleted again: the
\* selection is on plan 101, the first of the two that remain
C16_Witness ==
  /\ nextId = 2
  /\ Len(plans) = 2
  /\ plans[1].id = 101 /\ plans[2].id = 104
  /\ activePlanId = 101
  /\ pending = {}
  /\ steps = MaxSteps

\* ------------------------------------------------------------------ C17
\* C17: createPlan with a name that is empty once trimmed leaves plans and
\* activePlanId as they were; with any other name it puts one new plan, of the
\* trimmed name and without exercises, in front of plans, which are otherwise
\* what they were, and makes it the active plan.
C17_CreatePlan ==
  [][\A n \in NameInputs :
       createPlan(n)
       => IF IsTrimOf(<<>>, n)
          THEN UNCHANGED <<plans, activePlanId>>
          ELSE /\ Len(plans') = Len(plans) + 1
               /\ Tail(plans') = plans
               /\ Head(plans').id \notin PlanIds(plans)
               /\ IsTrimOf(Head(plans').name, n)
               /\ Head(plans').exercises = <<>>
               /\ activePlanId' = Head(plans').id]_vars

\* " b " was entered: plan "b" stands in front of the two stored plans and
\* is still selected after the effects
C17_Witness ==
  /\ Len(plans) = 3
  /\ plans[1].name = <<"b">>
  /\ plans[1].exercises = <<>>
  /\ Tail(plans) = StoredTwoPlans
  /\ activePlanId = plans[1].id
  /\ pending = {}

\* ------------------------------------------------------------------ C18
\* C18: renameActivePlan with a name that is not empty once trimmed gives the
\* active plan the trimmed name and changes nothing else: the plans keep their
\* order, ids and exercises, the other plans their names, and activePlanId and
\* history are what they were; with a name that trims to empty, or without an
\* active plan, plans, activePlanId and history are what they were.
C18_RenameOnlyName ==
  [][\A n \in NameInputs :
       renameActivePlan(n)
       => /\ UNCHANGED <<activePlanId, history>>
          /\ IF IsNull(activePlan) \/ IsTrimOf(<<>>, n)
             THEN plans' = plans
             ELSE /\ Len(plans') = Len(plans)
                  /\ \A i \in 1..Len(plans) :
                       /\ plans'[i].id = plans[i].id
                       /\ plans'[i].exercises = plans[i].exercises
                       /\ IF plans[i].id = activePlanId
                          THEN IsTrimOf(plans'[i].name, n)
                          ELSE plans'[i].name = plans[i].name]_vars

\* the stored plan "p" was renamed with " b ": it is plan "b", with the
\* exercises it had
C18_Witness ==
  /\ Len(plans) = 1
  /\ plans[1].id = 101
  /\ plans[1].name = <<"b">>
  /\ plans[1].exercises = StoredSamplePlans[1].exercises
  /\ activePlanId = 101

\* ------------------------------------------------------------------ C19
\* C19: addExercise with an active plan, a name that is not empty once
\* trimmed and a weight that is a number >= 0 puts exactly one new exercise
\* behind the exercises of the active plan, with currentWeight = bestWeight =
\* the weight rounded to one decimal, no previousWeight, targetSets 3,
\* completedSets 0 and empty notes, and leaves every other exercise and plan
\* as it was; in every other case it leaves plans as they were.
C19_Added(before, after, n, w) ==
  LET new == after[Len(after)]
  IN /\ Len(after) = Len(before) + 1
     /\ SubSeq(after, 1, Len(before)) = before
     /\ new.id \notin ExerciseIds(plans)
     /\ IsTrimOf(new.name, n)
     /\ new.currentWeight = RequestedWeight(w)
     /\ new.bestWeight = RequestedWeight(w)
     /\ new.previousWeight = <<>>
     /\ new.targetSets = 3
     /\ new.completedSets = 0
     /\ new.notes = <<>>

C19_AddExercise ==
  [][\A n \in ExerciseNameInputs, w \in WeightInputs :
       addExercise(n, w)
       => IF IsNull(activePlan) \/ IsTrimOf(<<>>, n) \/ w \notin ValidWeightInputs
          THEN plans' = plans
          ELSE /\ Len(plans') = Len(plans)
               /\ \A i \in 1..Len(plans) :
                    IF plans[i].id = activePlanId
                    THEN /\ plans'[i].id = plans[i].id
                         /\ plans'[i].name = plans[i].name
                         /\ C19_Added(plans[i].exercises, plans'[i].exercises, n, w)
                    ELSE plans'[i] = plans[i]]_vars

\* " a" at 20.0 was added to the stored plan: it is the third exercise, behind
\* the two stored ones
C19_Witness ==
  /\ Len(plans) = 1
  /\ Len(plans[1].exercises) = 3
  /\ SubSeq(plans[1].exercises, 1, 2) = StoredSamplePlans[1].exercises
  /\ plans[1].exercises[3].name = <<"a">>
  /\ plans[1].exercises[3].currentWeight = 200
  /\ plans[1].exercises[3].bestWeight = 200
  /\ plans[1].exercises[3].previousWeight = <<>>

\* ------------------------------------------------------------------ C20
\* C20: a click on set chip k sets completedSets to k when set k is not done
\* (k > completedSets) and to k - 1 when it is done; so on an exercise with
\* targetSets 3 and nothing done, chips 1, 2, 3 give completedSets 1, 2, 3
\* and chip 2 after them gives 1.
C20_Click(e, k) == SetsWrite(e, ChipTarget(e, k))

C20_Scenario ==
  \A e \in AllExercises(plans) :
    (e.targetSets = 3 /\ e.completedSets = 0)
    => LET e1 == C20_Click(e, 1)
           e2 == C20_Click(e1, 2)
           e3 == C20_Click(e2, 3)
           e4 == C20_Click(e3, 2)
       IN /\ e1.completedSets = 1
          /\ e2.completedSets = 2
          /\ e3.completedSets = 3
          /\ e4.completedSets = 1

C20_SetToggle ==
  /\ []C20_Scenario
  /\ [][\A e \in ActiveExerciseIds, k \in SetNumberInputs :
          setChipClick(e, k)
          => ExerciseOf(plans', e).completedSets =
               (IF k > ExerciseOf(plans, e).completedSets THEN k ELSE k - 1)]_vars

\* five chips of the stored exercise 102 (2 of 3 done) were clicked, chip 1,
\* then 1, 2, 3 and 2: one set is done; exercise 103 was not touched
C20_Witness ==
  /\ steps = MaxSteps
  /\ \E e \in AllExercises(plans) :
       e.id = 102 /\ e.targetSets = 3 /\ e.completedSets = 1 /\ ~e.completed
  /\ \E e \in AllExercises(plans) : e.id = 103 /\ e.completedSets = 3

\* ------------------------------------------------------------------ C21
\* C21: updateExerciseMeta leaves targetSets in [1, 12] whatever integer the
\* patch holds (a number above 12 gives 12, one below 1 other than 0 gives
\* 1); when targetSets changes, completedSets becomes the smaller of the old
\* completedSets and the new targetSets; a patch without targetSets leaves
\* targetSets and completedSets as they were.
C21_MetaKeepsSetsInRange ==
  [][\A e \in ActiveExerciseIds, p \in MetaInputs :
       updateExerciseMeta(e, p)
       => LET old == ExerciseOf(plans, e)
              new == ExerciseOf(plans', e)
          IN /\ 1 <= new.targetSets /\ new.targetSets <= 12
             /\ (p.targetSets # <<>> /\ p.targetSets[1] > 12) => new.targetSets = 12
             /\ (p.targetSets # <<>> /\ p.targetSets[1] < 0) => new.targetSets = 1
             /\ (p.targetSets # <<>> /\ p.targetSets[1] \in 1..12)
                => new.targetSets = p.targetSets[1]
             /\ new.targetSets # old.targetSets
                => new.completedSets =
                     (IF old.completedSets < new.targetSets THEN old.completedSets
                      ELSE new.targetSets)
             /\ p.targetSets = <<>>
                => (new.targetSets = old.targetSets
                    /\ new.completedSets = old.completedSets)]_vars

\* the stored exercise 103 (3 of 3 sets done) was given one target set
C21_Witness ==
  \E e \in AllExercises(plans) :
    e.id = 103 /\ e.targetSets = 1 /\ e.completedSets = 1 /\ e.completed

\* ------------------------------------------------------------------ C22
\* C22: deleteExercise takes exactly the exercise of the given id out of the
\* active plan and leaves the remaining exercises as they were, in their
\* order; with an id that no exercise of the active plan has, the plan is what
\* it was.  The other plans are not touched.
C22_DeleteExercise ==
  [][\A e \in ExerciseIdInputs :
       (deleteExercise(e) /\ ~IsNull(activePlan))
       => /\ Len(plans') = Len(plans)
          /\ \A i \in 1..Len(plans) :
               IF plans[i].id # activePlanId THEN plans'[i] = plans[i]
               ELSE LET before == plans[i].exercises
                        after == plans'[i].exercises
                    IN /\ plans'[i].id = plans[i].id
                       /\ plans'[i].name = plans[i].name
                       /\ IF \E k \in 1..Len(before) : before[k].id = e
                          THEN \E k \in 1..Len(before) :
                                 /\ before[k].id = e
                                 /\ after = SubSeq(before, 1, k - 1)
                                             \o SubSeq(before, k + 1, Len(before))
                          ELSE after = before]_vars

\* the first exercise of the stored plan 101 was deleted: exercise 103 is
\* what is left of it, and plan 104 is what it was
C22_Witness ==
  /\ Len(plans) = 2
  /\ plans[1].id = 101
  /\ plans[1].exercises = <<StoredTwoPlans[1].exercises[2]>>
  /\ plans[2] = StoredTwoPlans[2]

\* ------------------------------------------------------------------ C23
\* C23: moveExercise(dragId, targetId), whatever the two ids, leaves the
\* active plan's exercises a permutation of what they were (as many items, the
\* same exercises with the same fields) and the other plans as they were; so
\* does moveExerciseByOffset(id, -1 or 1) on every exercise list, for every id
\* and at both ends of the list.
C23_OffsetPermutes ==
  \A i \in 1..Len(plans), id \in ExerciseIdInputs, offset \in OffsetInputs :
    IsPermutation(plans[i].exercises, OffsetWrite(plans[i].exercises, id, offset))

C23_ReorderPermutes ==
  /\ []C23_OffsetPermutes
  /\ [][\A d \in ExerciseIdInputs, t \in ExerciseIdInputs :
          moveExercise(d, t)
          => /\ Len(plans') = Len(plans)
             /\ \A i \in 1..Len(plans) :
                  /\ plans'[i].id = plans[i].id
                  /\ plans'[i].name = plans[i].name
                  /\ IsPermutation(plans[i].exercises, plans'[i].exercises)
                  /\ plans[i].id # activePlanId => plans'[i] = plans[i]]_vars

\* an exercise was added behind the two stored ones and dragged onto the
\* first: the three are there, the new one in front
C23_Witness ==
  /\ Len(plans) = 1
  /\ Len(plans[1].exercises) = 3
  /\ plans[1].exercises[1].id < 100
  /\ SubSeq(plans[1].exercises, 2, 3) = StoredSamplePlans[1].exercises

\* ------------------------------------------------------------------ C24
\* C24: moveExercise(dragId, targetId) with two different exercises of the
\* active plan puts the dragged exercise at the place the target exercise had
\* before the call and keeps the order of all others; moveExerciseByOffset
\* lets the exercise change places with its neighbour in the given direction
\* and leaves the list as it is when the exercise stands at that end.
C24_OffsetSwaps ==
  \A i \in 1..Len(plans), offset \in OffsetInputs :
    LET es == plans[i].exercises
    IN \A j \in 1..Len(es) :
         LET after == OffsetWrite(es, es[j].id, offset)
         IN IF j + offset \in 1..Len(es)
            THEN after = [es EXCEPT ![j] = es[j + offset], ![j + offset] = es[j]]
            ELSE after = es

C24_ReorderPositions ==
  /\ []C24_OffsetSwaps
  /\ [][\A d \in ActiveExerciseIds, t \in ActiveExerciseIds :
          (moveExercise(d, t) /\ d # t)
          => LET before == activePlan[1].exercises
                 after == FindPlan(plans', activePlanId)[1].exercises
             IN /\ after[PlaceOf(before, t)] = before[PlaceOf(before, d)]
                /\ Without(after, d) = Without(before, d)]_vars

\* an exercise was added behind the two stored ones and the first was dragged
\* onto it: 102 stands where the new one stood, the other two moved up
C24_Witness ==
  /\ Len(plans) = 1
  /\ Len(plans[1].exercises) = 3
  /\ plans[1].exercises[1].id = 103
  /\ plans[1].exercises[2].id < 100
  /\ plans[1].exercises[3] = StoredSamplePlans[1].exercises[1]

\* ------------------------------------------------------------------ C25
\* C25: in every reachable state the plan statistics are those of the active
\* plan as it is: exerciseCount is the number of its exercises, the progress
\* count the number of them with a previousWeight below currentWeight, and
\* the done count (completedCount) the number of them with completedSets >=
\* targetSets.
C25_StatsReflectPlan ==
  LET es == IF IsNull(activePlan) THEN <<>> ELSE activePlan[1].exercises
  IN /\ planStats.exerciseCount = Len(es)
     /\ planStats.progressCount =
          Cardinality({j \in 1..Len(es) :
                         /\ es[j].previousWeight # <<>>
                         /\ es[j].currentWeight > es[j].previousWeight[1]})
     /\ planStats.completedCount =
          Cardinality({j \in 1..Len(es) : es[j].completedSets >= es[j].targetSets})

\* ------------------------------------------------------------------ C26
\* C26: deleteActivePlan on the only plan leaves plans empty and the plan
\* statistics all zero; the effects that follow clear activePlanId; and while
\* there is no plan the statistics are all zero and, once the effects have
\* run, activePlanId is empty.
C26_ZeroStats ==
  /\ planStats.exerciseCount = 0
  /\ planStats.avgWeight.num = 0
  /\ planStats.progressCount = 0
  /\ planStats.completedCount = 0

C26_NoPlan ==
  plans = <<>> => (C26_ZeroStats /\ (pending = {} => activePlanId = EmptyId))

C26_DeleteOnlyPlan ==
  /\ []C26_NoPlan
  /\ [][(deleteActivePlan /\ ~IsNull(activePlan) /\ Len(plans) = 1)
        => (plans' = <<>> /\ C26_ZeroStats')]_vars
  /\ [][(runEffects /\ plans = <<>>) => activePlanId' = EmptyId]_vars

\* a plan was created on an empty storage and deleted: no plan, no selection
C26_Witness ==
  /\ plans = <<>>
  /\ nextId = 2
  /\ activePlanId = EmptyId
  /\ pending = {}

\* ------------------------------------------------------------------ C27
\* C27: whenever plans or history has changed, the storage slot of the
\* collection comes to hold its serialization: once the effects of a render
\* have run the two slots hold the serializations of plans and history, a
\* state in which they do not is followed by one in which they do, and from
\* some point on (when no more handler runs) they always do.
C27_InSync ==
  /\ storedPlans = StringifyPlans(plans)
  /\ storedHistory = StringifyHistory(history)

C27_Persisted ==
  /\ [](pending = {} => C27_InSync)
  /\ (~C27_InSync ~> C27_InSync)
  /\ <>[]C27_InSync

\* a workout of the stored plan was finished and its weight changed: both
\* slots hold what is in memory
C27_Witness ==
  /\ steps = MaxSteps
  /\ pending = {}
  /\ Len(history) = 1
  /\ storedHistory = [kind |-> "array", value |-> history]
  /\ storedPlans.kind = "array"
  /\ Len(storedPlans.value) = 1
  /\ storedPlans.value[1].exercises[1][1].currentWeight = <<2990>>
  /\ storedPlans.value[1].exercises[1][1].completedSets = <<0>>

\* ------------------------------------------------------------------ C28
\* C28: the app starts on every storage content; loadPlans and loadHistory
\* give the empty collection for a slot that is absent, that does not parse
\* or that parses to something that is no array; from an array, every plan is
\* loaded, in its place, and one whose exercises field is no array has no
\* exercises.
C28_BadSlots == {AbsentSlot, GarbageSlot, ObjectSlot}

C28_AtStart == pending = {"plans", "history", "active"}

C28_Loaded ==
  /\ \A slot \in C28_BadSlots : loadPlans(slot) = <<>> /\ loadHistory(slot) = <<>>
  /\ C28_AtStart
     => /\ storedPlans \in C28_BadSlots => plans = <<>>
        /\ storedHistory \in C28_BadSlots => history = <<>>
        /\ storedPlans.kind = "array"
           => /\ Len(plans) = Len(storedPlans.value)
              /\ \A i \in 1..Len(plans) :
                   /\ plans[i].id = storedPlans.value[i].id
                   /\ plans[i].name = storedPlans.value[i].name
                   /\ storedPlans.value[i].exercises = <<>> => plans[i].exercises = <<>>
                   /\ storedPlans.value[i].exercises # <<>>
                      => Len(plans[i].exercises) = Len(storedPlans.value[i].exercises[1])

\* the first render on a plans slot whose first plan has no exercises array
\* and a history slot that holds an object
C28_Witness ==
  /\ C28_AtStart
  /\ storedPlans = StoredBrokenPlans
  /\ storedHistory = ObjectSlot
  /\ Len(plans) = 2
  /\ plans[1].exercises = <<>>
  /\ plans[2] = StoredTwoPlans[2]
  /\ history = <<>>

\* ------------------------------------------------------------------ C29
\* C29: every plans collection the handlers can produce comes back from
\* storage as it is: loadPlans of the serialization of plans is plans, every
\* exercise with every field and in its place.
C29_RoundTrip ==
  loadPlans(StringifyPlans(plans)) = plans

\* ------------------------------------------------------------------ C30
\* C30: a call that fails validation changes nothing: a handler of the
\* exercises called with an id that no exercise of the active plan has,
\* updateExerciseWeight called with a negative number or with text that is no
\* number, and a handler of the active plan or of its exercises called while
\* no plan is active each leave plans, history and activePlanId as they were.

\* the ids handed to a handler that no exercise of the active plan has
UnknownIdInputs == ExerciseIdInputs \ ActiveExerciseIds

\* the weight texts that are negative or no number
InvalidWeightInputs == WeightInputs \ ValidWeightInputs

\* a handler call with an exercise id
ExerciseCall(e) ==
  \/ \E w \in WeightInputs : updateExerciseWeight(e, w)
  \/ \E d \in DeltaInputs : changeExerciseByDelta(e, d)
  \/ \E c \in BOOLEAN : setExerciseCompleted(e, c)
  \/ \E n \in SetsInputs : setExerciseSets(e, n)
  \/ \E p \in MetaInputs : updateExerciseMeta(e, p)
  \/ deleteExercise(e)
  \/ \E t \in ExerciseIdInputs : moveExercise(e, t) \/ moveExercise(t, e)

\* a call of a handler that works on the active plan
ActivePlanCall ==
  \/ \E e \in ExerciseIdInputs : ExerciseCall(e)
  \/ \E n \in ExerciseNameInputs, w \in WeightInputs : addExercise(n, w)
  \/ \E n \in NameInputs : renameActivePlan(n)
  \/ deleteActivePlan
  \/ finishTraining

C30_Failed ==
  \/ \E e \in UnknownIdInputs : ExerciseCall(e)
  \/ \E e \in ExerciseIdInputs, w \in InvalidWeightInputs : updateExerciseWeight(e, w)
  \/ IsNull(activePlan) /\ ActivePlanCall

C30_ValidationNoOp ==
  [][C30_Failed => UNCHANGED <<plans, history, activePlanId>>]_vars

\* a plan was created beside the stored one and a second handler was called
\* whose setPlans went through (the plans effect is pending) and left the
\* collection as storage has it: the new plan is active and empty, the ids
\* a handler can be given are those of the other plan
C30_Witness ==
  /\ steps = MaxSteps
  /\ pending = {"plans"}
  /\ Len(plans) = 2
  /\ ~IsNull(activePlan)
  /\ activePlan[1] = plans[1]
  /\ ActiveExerciseIds = {}
  /\ ExerciseIds(plans) # {}
  /\ storedPlans = StringifyPlans(plans)

\* ------------------------------------------------------------------ C31
\* C31: updateExerciseWeight, changeExerciseByDelta, setExerciseSets,
\* setExerciseCompleted and updateExerciseMeta change nothing but the exercise
\* of the given id in the active plan: the plans keep their order, ids and
\* names, every plan keeps its exercises in their places, every exercise
\* that is not the addressed one of the active plan is what it was, and the
\* history is what it was.

\* a call of one of the five handlers with exercise id e
SingleExerciseCall(e) ==
  \/ \E w \in WeightInputs : updateExerciseWeight(e, w)
  \/ \E d \in DeltaInputs : changeExerciseByDelta(e, d)
  \/ \E n \in SetsInputs : setExerciseSets(e, n)
  \/ \E c \in BOOLEAN : setExerciseCompleted(e, c)
  \/ \E p \in MetaInputs : updateExerciseMeta(e, p)

C31_OnlyAddressed ==
  [][\A e \in ExerciseIdInputs :
       SingleExerciseCall(e)
       => /\ history' = history
          /\ Len(plans') = Len(plans)
          /\ \A i \in 1..Len(plans) :
               /\ plans'[i].id = plans[i].id
               /\ plans'[i].name = plans[i].name
               /\ Len(plans'[i].exercises) = Len(plans[i].exercises)
               /\ \A j \in 1..Len(plans[i].exercises) :
                    \/ plans'[i].exercises[j] = plans[i].exercises[j]
                    \/ /\ plans[i].id = activePlanId
                       /\ plans[i].exercises[j].id = e
                       /\ plans'[i].exercises[j].id = e]_vars

\* one handler was called and exercise 102 of the stored plan 101 has another
\* set count; its sibling 103 and plan 104 are what storage held
C31_Witness ==
  /\ steps = 1
  /\ Len(plans) = 2
  /\ plans[1].id = 101
  /\ plans[1].exercises[1].id = 102
  /\ plans[1].exercises[1].completedSets = 1
  /\ plans[1].exercises[2] = StoredTwoPlans[1].exercises[2]
  /\ plans[2] = StoredTwoPlans[2]

\* ------------------------------------------------------------------ C32
\* C32: on an empty store, createPlan with a name, addExercise with a name
\* and the weight 20.0, and changeExerciseByDelta by +2.5 (250 hundredths)
\* twice give an exercise with currentWeight 25.0, previousWeight 22.5 and
\* bestWeight 25.0.

\* the store holds one plan, the active one, with one exercise of these
\* weights (in tenths)
C32_OneExercise(current, previous, best) ==
  /\ Len(plans) = 1
  /\ plans[1].id = activePlanId
  /\ Len(plans[1].exercises) = 1
  /\ plans[1].exercises[1].currentWeight = current
  /\ plans[1].exercises[1].previousWeight = previous
  /\ plans[1].exercises[1].bestWeight = best

\* the weight text 20.0
C32_StartWeight == <<"2", "0", ".", "0">>

C32_Step(A, P, Q) == (P /\ A) => Q

C32_Scenario ==
  /\ [][\A n \in NameInputs :
          C32_Step(createPlan(n), plans = <<>> /\ Trim(n) # <<>>,
                   (Len(plans) = 1 /\ plans[1].exercises = <<>>
                    /\ activePlanId = plans[1].id)')]_vars
  /\ [][\A n \in ExerciseNameInputs :
          C32_Step(addExercise(n, C32_StartWeight),
                   Len(plans) = 1 /\ plans[1].exercises = <<>>
                     /\ activePlanId = plans[1].id /\ Trim(n) # <<>>,
                   C32_OneExercise(200, Null, 200)')]_vars
  /\ [][\A e \in ActiveExerciseIds :
          C32_Step(changeExerciseByDelta(e, 250),
                   C32_OneExercise(200, Null, 200),
                   C32_OneExercise(225, Some(200), 225)')]_vars
  /\ [][\A e \in ActiveExerciseIds :
          C32_Step(changeExerciseByDelta(e, 250),
                   C32_OneExercise(225, Some(200), 225),
                   C32_OneExercise(250, Some(225), 250)')]_vars

\* four handlers were called on the empty store and its one exercise, never
\* marked, has the weights 25.0, 22.5 and 25.0
C32_Witness ==
  /\ steps = MaxSteps
  /\ nextId = 3
  /\ C32_OneExercise(250, Some(225), 250)
  /\ plans[1].exercises[1].completedSets = 0

\* ------------------------------------------------------------------ C33
\* C33: while restRunning is true a tick takes one second off restSeconds,
\* and a tick that finds restSeconds <= 1 sets restSeconds to 0 and
\* restRunning to false; with the interval firing and no button of the timer
\* pressed any more, a running timer comes to restSeconds = 0 with
\* restRunning false and stays there.
C33_TickStep ==
  [][(restRunning /\ restTick)
     => IF restSeconds <= 1 THEN restSeconds' = 0 /\ ~restRunning'
        ELSE restSeconds' = restSeconds - 1 /\ restRunning']_vars

\* no button is pressed after the last press the run allows
C33_RunsOut ==
  (restRunning /\ steps = MaxSteps) ~> [](restSeconds = 0 /\ ~restRunning)

C33_RestTimer == C33_TickStep /\ C33_RunsOut

\* the last press the run allows was made and the timer, started by one of
\* the presses, has run out and stopped
C33_Witness ==
  /\ steps = MaxSteps
  /\ restSeconds = 0
  /\ ~restRunning

\* ------------------------------------------------------------------ C34
\* C34: the rest timer and the store do not touch each other: a tick and a
\* press of 90s, +30s or Start/Pause leave plans, history and activePlanId
\* as they were, and a store handler or effect leaves restSeconds and
\* restRunning as they were, wherever the ticks fall between the handlers.
C34_TimerStep == restNinety \/ restPlusThirty \/ restToggle \/ restTick

C34_Independent ==
  [][/\ C34_TimerStep
        => (plans' = plans /\ history' = history /\ activePlanId' = activePlanId)
     /\ (restSeconds' = restSeconds /\ restRunning' = restRunning) \/ ~Next]_vars

\* the timer was started and is half way down, still running, and the
\* workout of the stored plan was finished meanwhile
C34_Witness ==
  /\ steps = MaxSteps
  /\ restRunning
  /\ restSeconds = 45
  /\ Len(history) = 1
  /\ Len(plans) = 1

\* ------------------------------------------------------------------ C35
\* C35: in every state the handlers reach, every exercise has completed true
\* exactly when its completedSets is at least its targetSets.
C35_FlagAgrees ==
  \A e \in AllExercises(plans) : e.completed <=> (e.completedSets >= e.targetSets)

\* ------------------------------------------------------------------ C36
\* C36: setExerciseCompleted(id, true) sets completedSets to targetSets and
\* completed to true; setExerciseCompleted(id, false) sets completedSets to 0
\* and completed to false whatever the count was; so an exercise marked
\* complete and then open has completedSets 0, not the count it had before.
C36_Call ==
  [][\A e \in ActiveExerciseIds, c \in BOOLEAN :
       setExerciseCompleted(e, c)
       => LET old == ExerciseOf(plans, e)
              new == ExerciseOf(plans', e)
          IN /\ new.completed = c
             /\ new.targetSets = old.targetSets
             /\ new.completedSets = (IF c THEN old.targetSets ELSE 0)]_vars

\* marked complete, then open, from a count below the target
C36_CompleteThenOpen ==
  \A e \in AllExercises(plans) :
    LET opened == CompletedWrite(CompletedWrite(e, TRUE), FALSE)
    IN opened.completedSets = 0 /\ ~opened.completed

C36_SetCompleted == C36_Call /\ []C36_CompleteThenOpen

\* two handlers were called and the stored exercise 102, which had 2 of its
\* 3 sets done, has none done and is open, with its weights as stored
C36_Witness ==
  /\ steps = MaxSteps
  /\ \E e \in AllExercises(plans) :
       /\ e.id = 102
       /\ e.targetSets = 3
       /\ e.completedSets = 0
       /\ ~e.completed
       /\ e.currentWeight = 200
       /\ e.previousWeight = Some(175)

\* ------------------------------------------------------------------ C37
\* C37: finishTraining leaves currentWeight, previousWeight and bestWeight of
\* every exercise as they were, so what it recorded as isPr is what the
\* exercise would be recorded as again; two finishTraining calls in a row on
\* the same plan record the same isPr for every exercise.

\* finishTraining recorded a workout in this step
C37_Finished ==
  /\ finishTraining
  /\ ~IsNull(activePlan)
  /\ Len(activePlan[1].exercises) > 0

\* the exercise counts as a personal record
C37_Record(e) ==
  /\ e.previousWeight # <<>>
  /\ e.currentWeight >= e.bestWeight
  /\ e.currentWeight > e.previousWeight[1]

C37_WeightsKept ==
  [][C37_Finished
     => \A e \in ActiveExerciseIds :
          LET old == ExerciseOf(plans, e)
              new == ExerciseOf(plans', e)
              k == PlaceOf(activePlan[1].exercises, e)
          IN /\ new.currentWeight = old.currentWeight
             /\ new.previousWeight = old.previousWeight
             /\ new.bestWeight = old.bestWeight
             /\ history'[1].exercises[k].isPr = C37_Record(new)]_vars

\* the handler called before this one was finishTraining on the active plan:
\* the newest entry carries the time of the call before
C37_InARow ==
  [][(C37_Finished /\ history # <<>> /\ history[1].dateIso = steps - 1
        /\ history[1].planId = activePlanId)
     => /\ Len(history'[1].exercises) = Len(history[1].exercises)
        /\ \A k \in 1..Len(history[1].exercises) :
             history'[1].exercises[k].isPr = history[1].exercises[k].isPr]_vars

C37_PrPersists == C37_WeightsKept /\ C37_InARow

\* two workouts of the stored plan were finished one after the other: both
\* entries flag exercise 102 as a record and exercise 103 as none
C37_Witness ==
  /\ Len(history) = 2
  /\ history[1].dateIso = history[2].dateIso + 1
  /\ history[1].planId = history[2].planId
  /\ history[1].exercises[1].isPr /\ history[2].exercises[1].isPr
  /\ ~history[1].exercises[2].isPr /\ ~history[2].exercises[2].isPr

\* ------------------------------------------------------------------ C38
\* C38: the app starts with activePlanId empty; when plans is not empty and
\* activePlanId is the id of none of them, as at the start on stored plans,
\* the effects that follow set activePlanId to the id of the first plan; an
\* activePlanId that is the id of a plan is not changed by the effects.
C38_Unselected ==
  plans # <<>> /\ activePlanId \notin PlanIds(plans)

\* the state of the first render, before any effect has run
C38_FirstRender == pending = {"plans", "history", "active"}

C38_StartupSelection ==
  /\ [](C38_FirstRender => (activePlanId = EmptyId /\ C38_Unselected))
  /\ [][C38_Unselected => (runEffects /\ plans' = plans
                            /\ activePlanId' = plans[1].id)]_vars
  /\ (C38_Unselected ~> (plans # <<>> /\ activePlanId = plans[1].id))
  /\ [][(runEffects /\ activePlanId \in PlanIds(plans))
        => activePlanId' = activePlanId]_vars

\* the app started on the two stored plans, its effects selected the first,
\* the user selected the second, plan 104, and the effects left it selected
C38_Witness ==
  /\ steps = 1
  /\ pending = {}
  /\ plans = StoredTwoPlans
  /\ activePlanId = 104

\* ------------------------------------------------------------------ C39
\* C39: the effects of the first render write plans and history, as loaded,
\* to their slots; a slot that held text that does not parse, or JSON that is
\* no array, was loaded as the empty collection, so it comes to hold the
\* serialized empty collection, and what it held is gone from storage.
C39_Unreadable == {GarbageSlot, ObjectSlot}

\* the state of the first render, before any effect has run
C39_Mount == pending = {"plans", "history", "active"}

\* JSON.stringify([]) in a slot
C39_EmptyArray == [kind |-> "array", value |-> <<>>]

C39_WriteBack ==
  /\ [][C39_Mount
        => /\ storedPlans' = StringifyPlans(plans)
           /\ storedHistory' = StringifyHistory(history)
           /\ storedPlans \in C39_Unreadable => storedPlans' = C39_EmptyArray
           /\ storedHistory \in C39_Unreadable => storedHistory' = C39_EmptyArray]_vars
  /\ ((C39_Mount /\ storedPlans \in C39_Unreadable) ~> (storedPlans = C39_EmptyArray))
  /\ ((C39_Mount /\ storedHistory \in C39_Unreadable)
        ~> (storedHistory = C39_EmptyArray))
  /\ [](~C39_Mount => (storedPlans \notin C39_Unreadable
                        /\ storedHistory \notin C39_Unreadable))

\* the effects of the first render have run, no handler was called yet, and
\* both slots hold the serialized empty collection
C39_Witness ==
  /\ steps = MaxSteps - MaxLoadSteps
  /\ pending = {}
  /\ plans = <<>>
  /\ history = <<>>
  /\ storedPlans = C39_EmptyArray
  /\ storedHistory = C39_EmptyArray

====
